---- MODULE Spec2Model ----
(***************************************************************************)
(* Scoped API-key authorization engine of Adhunik-Sync:                    *)
(*   backend/app/models.py                (ApiKey, ApiKeyCreate, ...)      *)
(*   backend/app/api/routes/api_keys.py   (create / list / detail / revoke)*)
(*   backend/app/api/deps/api_key_auth.py (get_api_key, scope gate)        *)
(*                                                                         *)
(* The api key table is the sequence `keys`; a record's id is its position *)
(* (rows are never deleted, so positions are stable).  Strings that the    *)
(* code slices or concatenates (the secret, its prefix, its "hash") are    *)
(* sequences of one-character strings.  Every handler reads the clock at   *)
(* one instant, `now`; the clock advances between handlers (Tick).         *)
(***************************************************************************)
EXTENDS Integers, Sequences, FiniteSets, TLC

VARIABLES
    keys,       \* the api key table
    now,        \* datetime.utcnow()
    revokedOk,  \* ids for which DELETE has answered 204
    last,       \* the response of the last request
    inflight    \* per server process, the request it is handling

vars == <<keys, now, revokedOk, last, inflight>>

----------------------------------------------------------------------------
(* Bounds of the model *)

MaxTime == 2

(* Program constants *)

PREFIX_LEN == 8
MIN_EXPIRY_DAYS == 1
MAX_EXPIRY_DAYS == 365
DEFAULT_LIMIT == 100

HTTP_200_OK == 200
HTTP_201_CREATED == 201
HTTP_204_NO_CONTENT == 204
HTTP_401_UNAUTHORIZED == 401
HTTP_403_FORBIDDEN == 403
HTTP_404_NOT_FOUND == 404
HTTP_422_UNPROCESSABLE == 422
HTTP_500_INTEGRITY_ERROR == 500

(* Python's None for the nullable datetime columns and for "no row" *)
NULL == -1
NoRow == 0

----------------------------------------------------------------------------
(* Values the handlers' inputs are drawn from *)

Users == {"u1", "u2"}

ACCOUNTS_READ == "accounts:read"
ACCOUNTS_WRITE == "accounts:write"
WEBHOOKS_READ == "webhooks:read"
WEBHOOKS_WRITE == "webhooks:write"

ScopeType == {ACCOUNTS_READ, ACCOUNTS_WRITE, WEBHOOKS_READ, WEBHOOKS_WRITE}

(* request bodies of POST /api-keys with the user who sends them: two that *)
(* pass validation (expiry at either end of the range), one with no scope, *)
(* one with a scope outside the enum, and one on each side of the range    *)
CreateInputs ==
    { [user |-> "u1", name |-> "ci", scopes |-> <<ACCOUNTS_READ>>, expiry_days |-> 1],
      [user |-> "u2", name |-> "ci", scopes |-> <<ACCOUNTS_WRITE, ACCOUNTS_READ>>,
       expiry_days |-> 365],
      [user |-> "u1", name |-> "ci", scopes |-> <<>>, expiry_days |-> 1],
      [user |-> "u2", name |-> "ci", scopes |-> <<ACCOUNTS_READ, "accounts:delete">>,
       expiry_days |-> 1],
      [user |-> "u1", name |-> "ci", scopes |-> <<ACCOUNTS_READ>>, expiry_days |-> 0],
      [user |-> "u2", name |-> "ci", scopes |-> <<ACCOUNTS_READ>>, expiry_days |-> 366] }

(* scope lists the gate is built with (require_api_key_with_scopes) *)
RequiredInputs ==
    { <<ACCOUNTS_READ>>,
      <<ACCOUNTS_WRITE>>,
      <<ACCOUNTS_READ, ACCOUNTS_WRITE>>,
      <<WEBHOOKS_WRITE, ACCOUNTS_WRITE>> }

(* the values secrets.token_urlsafe can return, longer than the prefix and  *)
(* alike in their first PREFIX_LEN characters                              *)
Stem == <<"k", "Q", "7", "_", "a", "Z", "0", "p">>

SecretPool == << Stem \o <<"x", "1">>, Stem \o <<"y", "1">> >>

Secrets == { SecretPool[n] : n \in 1 .. Len(SecretPool) }

(* the X-API-Key header: absent (None / ""), or a string; a secret is      *)
(* unknown to the table until it is issued                                 *)
NoHeader == <<>>
Headers == Secrets \cup {NoHeader}

KeyIds == 1 .. Cardinality(Secrets)

(* GET /api-keys: the caller, skip, limit, show_expired, show_revoked *)
ListInputs ==
    { <<"u1", 0, DEFAULT_LIMIT, FALSE, FALSE>>,
      <<"u1", 1, 1, TRUE, TRUE>>,
      <<"u2", 0, DEFAULT_LIMIT, TRUE, TRUE>> }

(* requests to gated endpoints: the header and the scopes the endpoint requires *)
GateInputs ==
    { <<NoHeader, <<ACCOUNTS_READ>>>>,
      <<SecretPool[1], <<ACCOUNTS_READ>>>>,
      <<SecretPool[1], <<ACCOUNTS_WRITE>>>>,
      <<SecretPool[1], <<WEBHOOKS_WRITE, ACCOUNTS_WRITE>>>>,
      <<SecretPool[2], <<ACCOUNTS_READ>>>>,
      <<SecretPool[2], <<ACCOUNTS_READ, ACCOUNTS_WRITE>>>> }

----------------------------------------------------------------------------
(* models.py *)

(* key[:8] *)
Slice(s, n) == SubSeq(s, 1, IF Len(s) < n THEN Len(s) ELSE n)

HashTag == <<"h", "a", "s", "h", "e", "d", "_">>

(* f"hashed_{key}" *)
Hash(key) == HashTag \o key

(* secrets.token_urlsafe(32).  The draw is random over 2^256 values and the *)
(* handlers treat all secrets alike, so the model hands the pool out in    *)
(* order; once the pool is used up a draw repeats a stored secret, which   *)
(* the unique column ApiKey.key refuses when the row is committed.         *)
token_urlsafe(store) ==
    LET unused == { n \in 1 .. Len(SecretPool) :
                      \A i \in 1 .. Len(store) : store[i].key # SecretPool[n] }
    IN  IF unused = {} THEN Secrets
        ELSE { SecretPool[CHOOSE n \in unused : \A m \in unused : n <= m] }

(* ApiKey.generate_key, for the token drawn *)
generate_key(key) == <<key, Slice(key, PREFIX_LEN), Hash(key)>>

(* List[ScopeType] coercion followed by ApiKeyBase.validate_scopes *)
validate_scopes(v) ==
    /\ v # <<>>
    /\ \A i \in 1 .. Len(v) : v[i] \in ScopeType

(* the range check of expiry_days starting at 0 *)
validate_expiry_days_from_zero(v) == ~(v < 0 \/ v > MAX_EXPIRY_DAYS)

(* ApiKeyCreate.expiry_days: Field(ge=1, le=365) and validate_expiry_days *)
validate_expiry_days(v) == ~(v < MIN_EXPIRY_DAYS \/ v > MAX_EXPIRY_DAYS)

(* a new ApiKey row with the column defaults *)
ApiKey(id, name, key, key_prefix, hashed_key, owner_id, scopes, expires_at, created_at) ==
    [ id           |-> id,
      name         |-> name,
      key          |-> key,
      key_prefix   |-> key_prefix,
      hashed_key   |-> hashed_key,
      owner_id     |-> owner_id,
      scopes       |-> scopes,
      expires_at   |-> expires_at,
      created_at   |-> created_at,
      last_used_at |-> NULL,
      is_active    |-> TRUE,
      revoked      |-> FALSE,
      revoked_at   |-> NULL ]

(* the is_active expression of the read APIs *)
PublicIsActive(k, t) ==
    k.is_active /\ ~k.revoked /\ (k.expires_at = NULL \/ k.expires_at > t)

(* the public view filled with the key where the prefix belongs *)
ApiKeyPublic_showing_key(k, t) ==
    [ id           |-> k.id,
      name         |-> k.name,
      key_prefix   |-> k.key,
      scopes       |-> k.scopes,
      created_at   |-> k.created_at,
      expires_at   |-> k.expires_at,
      is_active    |-> PublicIsActive(k, t),
      last_used_at |-> k.last_used_at ]

(* ApiKeyPublic as list_api_keys and get_api_key fill it *)
ApiKeyPublic(k, t) ==
    [ id           |-> k.id,
      name         |-> k.name,
      key_prefix   |-> k.key_prefix,
      scopes       |-> k.scopes,
      created_at   |-> k.created_at,
      expires_at   |-> k.expires_at,
      is_active    |-> PublicIsActive(k, t),
      last_used_at |-> k.last_used_at ]

ApiKeyResponse(k, key) ==
    [ id         |-> k.id,
      name       |-> k.name,
      key        |-> key,
      key_prefix |-> k.key_prefix,
      scopes     |-> k.scopes,
      created_at |-> k.created_at,
      expires_at |-> k.expires_at ]

----------------------------------------------------------------------------
(* helpers for the queries *)

Range(s) == { s[i] : i \in 1 .. Len(s) }

RECURSIVE SelectWhere(_, _, _)
(* rows of store, in table order, whose id is in the set ids *)
SelectWhere(store, ids, i) ==
    IF i > Len(store) THEN <<>>
    ELSE (IF i \in ids THEN <<store[i]>> ELSE <<>>) \o SelectWhere(store, ids, i + 1)

(* .offset(skip).limit(limit) *)
Paginate(rows, skip, limit) ==
    SubSeq(rows, skip + 1, IF Len(rows) < skip + limit THEN Len(rows) ELSE skip + limit)

(* session.exec(query).first() for a query on one column value *)
First(ids) == IF ids = {} THEN NoRow ELSE CHOOSE i \in ids : \A j \in ids : i <= j

----------------------------------------------------------------------------
(* deps/api_key_auth.py *)

(* select(ApiKey).where(ApiKey.key == api_key_header) ... .first() *)
find_api_key(store, api_key_header) ==
    First({ i \in 1 .. Len(store) : store[i].key = api_key_header })

(* get_api_key without the expires_at test *)
key_rejected_no_expiry(api_key, t) ==
    \/ ~api_key.is_active
    \/ api_key.revoked

(* the condition under which get_api_key returns None for a row found *)
key_rejected(api_key, t) ==
    \/ ~api_key.is_active
    \/ api_key.revoked
    \/ (api_key.expires_at # NULL /\ api_key.expires_at < t)

(* get_api_key: the id of the row returned, NoRow for None *)
get_api_key(store, api_key_header, t) ==
    IF api_key_header = NoHeader THEN NoRow
    ELSE LET i == find_api_key(store, api_key_header) IN
         IF i = NoRow THEN NoRow
         ELSE IF key_rejected(store[i], t) THEN NoRow
         ELSE i

(* get_api_key also pushing the expiry on at every use *)
touch_sliding_expiry(api_key, t) ==
    [api_key EXCEPT !.last_used_at = t, !.expires_at = t + 1]

(* api_key.last_used_at = datetime.utcnow() *)
touch(api_key, t) == [api_key EXCEPT !.last_used_at = t]

(* get_api_key: the table after the call *)
get_api_key_commit(store, api_key_header, t) ==
    LET i == get_api_key(store, api_key_header, t) IN
    IF i = NoRow THEN store ELSE [store EXCEPT ![i] = touch(store[i], t)]

(* the loop of validate_api_key_scopes leaving after its first round *)
first_missing_first_only(required_scopes, api_key_scopes, n) ==
    IF n > Len(required_scopes) THEN 0
    ELSE IF required_scopes[n] \notin api_key_scopes THEN n
    ELSE 0

(* the loop of validate_api_key_scopes keeping the last scope it misses *)
first_missing_last(required_scopes, api_key_scopes, n) ==
    LET missing == { m \in n .. Len(required_scopes) :
                       required_scopes[m] \notin api_key_scopes }
    IN  IF missing = {} THEN 0
        ELSE CHOOSE m \in missing : \A m2 \in missing : m2 <= m

RECURSIVE first_missing(_, _, _)
(* the loop of validate_api_key_scopes: position of the first required     *)
(* scope the key lacks, 0 when the loop runs to its end                    *)
first_missing(required_scopes, api_key_scopes, n) ==
    IF n > Len(required_scopes) THEN 0
    ELSE IF required_scopes[n] \notin api_key_scopes THEN n
    ELSE first_missing(required_scopes, api_key_scopes, n + 1)

DetailInvalid == "Invalid or missing API key"
DetailMissing(scope) == <<"API key missing required scope: ", scope>>

(* validate_api_key_scopes: the response for the row get_api_key returned *)
validate_api_key_scopes(store, i, required_scopes) ==
    IF i = NoRow
    THEN [status |-> HTTP_401_UNAUTHORIZED, body |-> DetailInvalid]
    ELSE LET m == first_missing(required_scopes, Range(store[i].scopes), 1) IN
         IF m # 0
         THEN [status |-> HTTP_403_FORBIDDEN, body |-> DetailMissing(required_scopes[m])]
         ELSE [status |-> HTTP_200_OK, body |-> store[i]]

(* the gate as a whole: dependency get_api_key, then the scope check *)
authorize(store, api_key_header, required_scopes, t) ==
    validate_api_key_scopes(get_api_key_commit(store, api_key_header, t),
                            get_api_key(store, api_key_header, t),
                            required_scopes)

----------------------------------------------------------------------------
(* routes/api_keys.py *)

(* the lookup of revoke and detail by id alone, whoever asks *)
find_any_owner(store, api_key_id, user) ==
    First({ i \in 1 .. Len(store) : store[i].id = api_key_id })

(* select(ApiKey).where(ApiKey.id == api_key_id, ApiKey.owner_id == user) *)
find_owned(store, api_key_id, user) ==
    First({ i \in 1 .. Len(store) : store[i].id = api_key_id /\ store[i].owner_id = user })

(* revoke_api_key recording the time only *)
revoke_row_time_only(api_key, t) == [api_key EXCEPT !.revoked_at = t]

(* revoke_api_key without `api_key.is_active = False` *)
revoke_row_still_active(api_key, t) ==
    [api_key EXCEPT !.revoked = TRUE, !.revoked_at = t]

(* the three assignments of revoke_api_key *)
revoke_row(api_key, t) ==
    [api_key EXCEPT !.revoked = TRUE, !.revoked_at = t, !.is_active = FALSE]

(* the WHERE clause of list_api_keys *)
list_filter(store, user, show_expired, show_revoked, t) ==
    { i \in 1 .. Len(store) :
        /\ store[i].owner_id = user
        /\ (show_expired \/ store[i].expires_at > t \/ store[i].expires_at = NULL)
        /\ (show_revoked \/ store[i].revoked = FALSE) }

(* the ApiKeysPublic body of list_api_keys *)
list_body(store, user, skip, limit, show_expired, show_revoked, t) ==
    LET ids  == list_filter(store, user, show_expired, show_revoked, t)
        rows == Paginate(SelectWhere(store, ids, 1), skip, limit)
    IN  [ data  |-> [ n \in 1 .. Len(rows) |-> ApiKeyPublic(rows[n], t) ],
          count |-> Cardinality(ids) ]

NoBody == "-"
NoArg == "-"
Nobody == "-"

Response(op, who, arg, st, body) ==
    [op |-> op, who |-> who, arg |-> arg, status |-> st, body |-> body]

----------------------------------------------------------------------------
(* State machine *)

(* the server processes that share the database *)
Processes == {"p1", "p2"}

(* what a process holds of the request it is handling: where it stands, the *)
(* handler, the caller and the argument, the object its session loaded     *)
(* with the attributes the handler set since (for a handler that calls the *)
(* provider, the call it waits on), the names of those attributes, and the *)
(* answer once it is given; overlaps names the processes whose request was *)
(* in flight at some moment while this one was                             *)
Request(pc, op, who, arg, obj, dirty, st, body) ==
    [pc |-> pc, op |-> op, who |-> who, arg |-> arg, obj |-> obj,
     dirty |-> dirty, status |-> st, body |-> body, overlaps |-> {}]

Idle == Request("idle", NoArg, Nobody, NoArg, NoBody, {}, 0, NoBody)

(* the processes with a request in flight *)
InFlight(calls) == { q \in Processes : calls[q].pc \notin {"idle", "done"} }

(* process p takes up request r *)
arrive(calls, p, r) ==
    [q \in Processes |->
       IF q = p THEN [r EXCEPT !.overlaps = InFlight(calls) \ {p}]
       ELSE [calls[q] EXCEPT !.overlaps = IF q \in InFlight(calls)
                                         THEN @ \cup {p} ELSE @ \ {p}]]

(* process p goes on with, or answers, the request it holds *)
proceed(calls, p, r) ==
    [calls EXCEPT ![p] = [r EXCEPT !.overlaps = calls[p].overlaps]]

Init ==
    /\ keys = <<>>
    /\ now = 0
    /\ revokedOk = {}
    /\ last = Response("init", Nobody, NoArg, 0, NoBody)
    /\ inflight = [p \in Processes |-> Idle]

(* POST /api-keys *)
create_api_key(user, name, scopes, expiry_days) ==
    /\ UNCHANGED <<now, revokedOk, inflight>>
    /\ IF ~(validate_scopes(scopes) /\ validate_expiry_days(expiry_days))
       THEN /\ UNCHANGED keys
            /\ last' = Response("create", user, <<scopes, expiry_days>>,
                                HTTP_422_UNPROCESSABLE, NoBody)
       ELSE \E token \in token_urlsafe(keys) :
            LET g   == generate_key(token)
                row == ApiKey(Len(keys) + 1, name, g[1], g[2], g[3], user, scopes,
                              now + expiry_days, now)
            IN  IF \E i \in 1 .. Len(keys) : keys[i].key = g[1]
                THEN /\ UNCHANGED keys
                     /\ last' = Response("create", user, <<scopes, expiry_days>>,
                                         HTTP_500_INTEGRITY_ERROR, NoBody)
                ELSE /\ keys' = Append(keys, row)
                     /\ last' = Response("create", user, <<scopes, expiry_days>>,
                                         HTTP_201_CREATED, ApiKeyResponse(row, g[1]))

(* GET /api-keys *)
list_api_keys(user, skip, limit, show_expired, show_revoked) ==
    /\ UNCHANGED <<keys, now, revokedOk, inflight>>
    /\ last' = Response("list", user, <<skip, limit, show_expired, show_revoked>>,
                        HTTP_200_OK,
                        list_body(keys, user, skip, limit, show_expired, show_revoked, now))

(* GET /api-keys/{api_key_id} *)
get_api_key_detail(user, api_key_id) ==
    /\ UNCHANGED <<keys, now, revokedOk, inflight>>
    /\ LET i == find_owned(keys, api_key_id, user) IN
       IF i = NoRow
       THEN last' = Response("detail", user, api_key_id, HTTP_404_NOT_FOUND, NoBody)
       ELSE last' = Response("detail", user, api_key_id, HTTP_200_OK,
                             ApiKeyPublic(keys[i], now))

(* DELETE /api-keys/{api_key_id} *)
revoke_api_key(user, api_key_id) ==
    /\ UNCHANGED <<now, inflight>>
    /\ LET i == find_owned(keys, api_key_id, user) IN
       IF i = NoRow
       THEN /\ UNCHANGED <<keys, revokedOk>>
            /\ last' = Response("revoke", user, api_key_id, HTTP_404_NOT_FOUND, NoBody)
       ELSE /\ keys' = [keys EXCEPT ![i] = revoke_row(keys[i], now)]
            /\ revokedOk' = revokedOk \cup {i}
            /\ last' = Response("revoke", user, api_key_id, HTTP_204_NO_CONTENT, NoBody)

(* a request that resolves the dependency get_api_key (validate) *)
validate(api_key_header) ==
    /\ UNCHANGED <<now, revokedOk, inflight>>
    /\ keys' = get_api_key_commit(keys, api_key_header, now)
    /\ LET i == get_api_key(keys, api_key_header, now) IN
       last' = Response("validate", Nobody, api_key_header,
                        IF i = NoRow THEN HTTP_401_UNAUTHORIZED ELSE HTTP_200_OK,
                        IF i = NoRow THEN NoBody ELSE keys'[i])

(* a request to an endpoint behind require_api_key_with_scopes(required) *)
gated_call(api_key_header, required_scopes) ==
    /\ UNCHANGED <<now, revokedOk, inflight>>
    /\ keys' = get_api_key_commit(keys, api_key_header, now)
    /\ LET r == authorize(keys, api_key_header, required_scopes, now) IN
       last' = Response("authorize", Nobody, <<api_key_header, required_scopes>>,
                        r.status, r.body)

(* datetime.utcnow() moves on between requests *)
Tick ==
    /\ now < MaxTime
    /\ now' = now + 1
    /\ UNCHANGED <<keys, revokedOk, inflight>>
    /\ last' = Response("tick", Nobody, NoArg, 0, NoBody)

Next ==
    \/ \E c \in CreateInputs : create_api_key(c.user, c.name, c.scopes, c.expiry_days)
    \/ \E q \in ListInputs : list_api_keys(q[1], q[2], q[3], q[4], q[5])
    \/ \E u \in Users, id \in KeyIds : get_api_key_detail(u, id)
    \/ \E u \in Users, id \in KeyIds : revoke_api_key(u, id)
    \/ \E h \in Headers : validate(h)
    \/ \E g \in GateInputs : gated_call(g[1], g[2])
    \/ Tick

Spec == Init /\ [][Next]_vars

----------------------------------------------------------------------------
(* get_api_key and revoke_api_key in several server processes: each reads  *)
(* the row in its own session, sets attributes, and commits later          *)

(* the columns the two handlers assign *)
AssignedColumns == {"last_used_at", "revoked", "revoked_at", "is_active"}

(* the attributes whose value differs from the one loaded *)
changed(loaded, obj) == { a \in AssignedColumns : obj[a] # loaded[a] }

(* session.commit() writing every attribute of the object it holds *)
commit_whole_object(row, obj, dirty) == obj

(* session.add(api_key); session.commit(): the UPDATE sets the attributes  *)
(* that changed and no other column of the row                             *)
commit(row, obj, dirty) ==
    [row EXCEPT
       !.last_used_at = IF "last_used_at" \in dirty THEN obj.last_used_at ELSE @,
       !.revoked      = IF "revoked" \in dirty THEN obj.revoked ELSE @,
       !.revoked_at   = IF "revoked_at" \in dirty THEN obj.revoked_at ELSE @,
       !.is_active    = IF "is_active" \in dirty THEN obj.is_active ELSE @]

(* the key the race is about, as create_api_key stores it at time 0 *)
RaceKey ==
    LET g == generate_key(SecretPool[1])
    IN  ApiKey(1, "ci", g[1], g[2], g[3], "u1", <<ACCOUNTS_READ>>, 1, 0)

(* DELETE /api-keys/1 by the owner and by the other user *)
RaceRevokeInputs == { <<"u1", 1>>, <<"u2", 1>> }

(* the header with the secret of the key *)
RaceHeaders == { SecretPool[1] }

RaceInit ==
    /\ keys = <<RaceKey>>
    /\ now = 0
    /\ revokedOk = {}
    /\ last = Response("init", Nobody, NoArg, 0, NoBody)
    /\ inflight = [p \in Processes |-> Idle]

(* get_api_key up to the assignment of last_used_at; a header that is      *)
(* refused returns None at once                                            *)
validate_read(p, api_key_header) ==
    /\ inflight[p].pc \in {"idle", "done"}
    /\ UNCHANGED <<keys, now, revokedOk, last>>
    /\ LET i == get_api_key(keys, api_key_header, now) IN
       IF i = NoRow
       THEN inflight' = arrive(inflight, p,
                Request("done", "validate", Nobody, api_key_header, NoBody, {},
                        HTTP_401_UNAUTHORIZED, NoBody))
       ELSE inflight' = arrive(inflight, p,
                Request("commit", "validate", Nobody, api_key_header,
                        touch(keys[i], now),
                        changed(keys[i], touch(keys[i], now)), 0, NoBody))

(* get_api_key: session.add, session.commit, return api_key *)
validate_commit(p) ==
    /\ inflight[p].pc = "commit"
    /\ inflight[p].op = "validate"
    /\ UNCHANGED <<now, revokedOk, last>>
    /\ LET i == inflight[p].obj.id IN
       /\ keys' = [keys EXCEPT ![i] = commit(keys[i], inflight[p].obj,
                                             inflight[p].dirty)]
       /\ inflight' = proceed(inflight, p,
               Request("done", "validate", Nobody, inflight[p].arg,
                       inflight[p].obj, inflight[p].dirty, HTTP_200_OK, keys'[i]))

(* revoke_api_key up to the assignment of is_active; 404 at once when the  *)
(* caller has no such key                                                  *)
revoke_read(p, user, api_key_id) ==
    /\ inflight[p].pc \in {"idle", "done"}
    /\ UNCHANGED <<keys, now, revokedOk, last>>
    /\ LET i == find_owned(keys, api_key_id, user) IN
       IF i = NoRow
       THEN inflight' = arrive(inflight, p,
                Request("done", "revoke", user, api_key_id, NoBody, {},
                        HTTP_404_NOT_FOUND, NoBody))
       ELSE inflight' = arrive(inflight, p,
                Request("commit", "revoke", user, api_key_id,
                        revoke_row(keys[i], now),
                        changed(keys[i], revoke_row(keys[i], now)), 0, NoBody))

(* revoke_api_key: session.add, session.commit, 204 *)
revoke_commit(p) ==
    /\ inflight[p].pc = "commit"
    /\ inflight[p].op = "revoke"
    /\ UNCHANGED <<now, last>>
    /\ LET i == inflight[p].obj.id IN
       /\ keys' = [keys EXCEPT ![i] = commit(keys[i], inflight[p].obj,
                                             inflight[p].dirty)]
       /\ revokedOk' = revokedOk \cup {i}
       /\ inflight' = proceed(inflight, p,
               Request("done", "revoke", inflight[p].who, inflight[p].arg,
                       inflight[p].obj, inflight[p].dirty,
                       HTTP_204_NO_CONTENT, NoBody))

RaceNext ==
    \/ \E p \in Processes, h \in RaceHeaders : validate_read(p, h)
    \/ \E p \in Processes : validate_commit(p)
    \/ \E p \in Processes, r \in RaceRevokeInputs : revoke_read(p, r[1], r[2])
    \/ \E p \in Processes : revoke_commit(p)
    \/ Tick

SpecRace == RaceInit /\ [][RaceNext]_vars

----------------------------------------------------------------------------
(* routes/account.py: the values the handlers work on *)

(* a JSON / Python value with its type: None, bool, str, a URL string as   *)
(* urlparse splits it, and dict as the list of its items                   *)
None == <<"null", "None">>
Bool(b) == <<"bool", b>>
Str(s) == <<"str", s>>
Url(path, query) == <<"url", [path |-> path, query |-> query]>>
Dict(items) == <<"dict", items>>
Item(key, v) == <<key, v>>

(* type_of(x) and the Python value of x *)
type_of(x) == x[1]
value_of(x) == x[2]

(* bool(x): the truth value Python gives x in "if x" and "x and ..." *)
truthy_when_not_none(x) == type_of(x) # "null"

truthy(x) ==
    CASE type_of(x) = "null" -> FALSE
      [] type_of(x) = "bool" -> value_of(x)
      [] type_of(x) = "str"  -> value_of(x) # ""
      [] type_of(x) = "url"  -> value_of(x).path # <<>> \/ value_of(x).query # <<>>
      [] type_of(x) = "dict" -> value_of(x) # <<>>

(* dict.get(key, default) *)
get(d, key, default) ==
    LET at == { n \in 1 .. Len(value_of(d)) : value_of(d)[n][1] = key } IN
    IF at = {} THEN default
    ELSE value_of(d)[CHOOSE n \in at : \A n2 \in at : n2 <= n][2]

(* x == "literal" for a value x that may be of any type *)
eq_str(x, s) == type_of(x) = "str" /\ value_of(x) = s

(* the letters str.lower() maps, and what it maps them to *)
UpperCase ==
    <<"A", "B", "C", "D", "E", "F", "G", "H", "I", "J", "K", "L", "M",
      "N", "O", "P", "Q", "R", "S", "T", "U", "V", "W", "X", "Y", "Z">>

LowerCase ==
    <<"a", "b", "c", "d", "e", "f", "g", "h", "i", "j", "k", "l", "m",
      "n", "o", "p", "q", "r", "s", "t", "u", "v", "w", "x", "y", "z">>

(* "/checkpoint/lg/direct-login-submit" *)
direct_login_submit ==
    <<"/", "c", "h", "e", "c", "k", "p", "o", "i", "n", "t", "/", "l",
      "g", "/", "d", "i", "r", "e", "c", "t", "-", "l", "o", "g", "i",
      "n", "-", "s", "u", "b", "m", "i", "t">>

(* Phone verification patterns *)
phone_patterns ==
    << <<"/", "c", "h", "e", "c", "k", "p", "o", "i", "n", "t", "/",
           "l", "g", "/", "p", "h", "o", "n", "e", "-", "c", "h", "a",
           "l", "l", "e", "n", "g", "e">>,
       <<"/", "c", "h", "e", "c", "k", "p", "o", "i", "n", "t", "/",
           "p", "h", "o", "n", "e">>,
       <<"/", "p", "h", "o", "n", "e", "-", "r", "e", "g", "i", "s",
           "t", "e", "r">>,
       <<"/", "a", "d", "d", "-", "p", "h", "o", "n", "e">>,
       <<"/", "c", "h", "e", "c", "k", "p", "o", "i", "n", "t", "/",
           "l", "g", "/", "a", "d", "d", "-", "p", "h", "o", "n", "e",
           "-", "n", "u", "m", "b", "e", "r">> >>

(* Two-factor authentication patterns *)
two_factor_patterns ==
    << <<"/", "t", "w", "o", "-", "s", "t", "e", "p", "-", "v", "e",
           "r", "i", "f", "i", "c", "a", "t", "i", "o", "n">>,
       <<"/", "c", "h", "e", "c", "k", "p", "o", "i", "n", "t", "/",
           "l", "g", "/", "l", "o", "g", "i", "n", "-", "t", "w", "o",
           "-", "f", "a", "c", "t", "o", "r">>,
       <<"/", "c", "h", "e", "c", "k", "p", "o", "i", "n", "t", "/",
           "l", "g", "/", "t", "w", "o", "-", "f", "a", "c", "t", "o",
           "r", "-", "a", "u", "t", "h">>,
       <<"/", "u", "a", "s", "/", "t", "w", "o", "-", "f", "a", "c",
           "t", "o", "r", "-", "a", "u", "t", "h", "-", "c", "h", "e",
           "c", "k", "p", "o", "i", "n", "t">> >>

(* CAPTCHA patterns *)
captcha_patterns ==
    << <<"/", "c", "a", "p", "t", "c", "h", "a">>,
       <<"/", "c", "h", "e", "c", "k", "p", "o", "i", "n", "t", "/",
           "c", "h", "a", "l", "l", "e", "n", "g", "e", "/", "c", "a",
           "p", "t", "c", "h", "a">>,
       <<"/", "c", "h", "e", "c", "k", "p", "o", "i", "n", "t", "/",
           "l", "g", "/", "c", "a", "p", "t", "c", "h", "a", "-", "c",
           "h", "a", "l", "l", "e", "n", "g", "e">>,
       <<"/", "u", "a", "s", "/", "c", "a", "p", "t", "c", "h", "a",
           "-", "s", "u", "b", "m", "i", "t">> >>

(* In-app validation patterns *)
in_app_patterns ==
    << <<"/", "c", "h", "e", "c", "k", "p", "o", "i", "n", "t", "/",
           "l", "g", "/", "l", "o", "g", "i", "n", "-", "i", "n", "-",
           "a", "p", "p">>,
       <<"/", "m", "o", "b", "i", "l", "e", "-", "a", "p", "p">>,
       <<"/", "c", "h", "e", "c", "k", "p", "o", "i", "n", "t", "/",
           "l", "g", "/", "a", "p", "p", "-", "c", "h", "a", "l", "l",
           "e", "n", "g", "e">>,
       <<"/", "c", "h", "e", "c", "k", "p", "o", "i", "n", "t", "/",
           "l", "g", "/", "m", "o", "b", "i", "l", "e", "-", "v", "a",
           "l", "i", "d", "a", "t", "i", "o", "n">> >>

(* Email verification patterns (different from OTP) *)
email_patterns ==
    << <<"/", "c", "h", "e", "c", "k", "p", "o", "i", "n", "t", "/",
           "l", "g", "/", "e", "m", "a", "i", "l", "-", "p", "i", "n",
           "-", "c", "h", "a", "l", "l", "e", "n", "g", "e">>,
       <<"/", "c", "h", "e", "c", "k", "p", "o", "i", "n", "t", "/",
           "l", "g", "/", "v", "e", "r", "i", "f", "y", "-", "e", "m",
           "a", "i", "l">>,
       <<"/", "e", "m", "a", "i", "l", "-", "v", "e", "r", "i", "f",
           "i", "c", "a", "t", "i", "o", "n">> >>

(* Security verification patterns *)
security_patterns ==
    << <<"/", "c", "h", "e", "c", "k", "p", "o", "i", "n", "t", "/",
           "l", "g", "/", "l", "o", "g", "i", "n", "-", "s", "u", "b",
           "m", "i", "t">>,
       <<"/", "c", "h", "e", "c", "k", "p", "o", "i", "n", "t", "/",
           "l", "g", "/", "s", "e", "c", "u", "r", "i", "t", "y", "-",
           "c", "h", "a", "l", "l", "e", "n", "g", "e">>,
       <<"/", "c", "h", "e", "c", "k", "p", "o", "i", "n", "t", "/",
           "c", "h", "a", "l", "l", "e", "n", "g", "e", "/", "v", "e",
           "r", "i", "f", "y">> >>

(* Rate limiting or suspicious activity *)
rate_limit_patterns ==
    << <<"/", "c", "h", "e", "c", "k", "p", "o", "i", "n", "t", "/",
           "l", "g", "/", "r", "a", "t", "e", "-", "l", "i", "m", "i",
           "t">>,
       <<"/", "c", "h", "e", "c", "k", "p", "o", "i", "n", "t", "/",
           "l", "g", "/", "s", "u", "s", "p", "i", "c", "i", "o", "u",
           "s", "-", "a", "c", "t", "i", "v", "i", "t", "y">> >>

(* the lower-case letter of every upper-case letter *)
to_lower ==
    [c \in { UpperCase[n] : n \in 1 .. Len(UpperCase) } |->
        LowerCase[CHOOSE n \in 1 .. Len(UpperCase) : UpperCase[n] = c]]

(* str.lower() leaving the text as it is *)
lower_kept(s) == s

(* str.lower() *)
lower(s) ==
    [n \in 1 .. Len(s) |->
        IF s[n] \in DOMAIN to_lower THEN to_lower[s[n]] ELSE s[n]]

(* pattern in path: the pattern starts at some position of the path *)
contains(path, pattern) ==
    \E n \in 0 .. (Len(path) - Len(pattern)) :
        /\ path[n + 1] = pattern[1]
        /\ SubSeq(path, n + 1, n + Len(pattern)) = pattern

(* any(pattern in path for pattern in patterns) *)
any_in(patterns, path) ==
    \E n \in 1 .. Len(patterns) : contains(path, patterns[n])

(* parse_qs keeping the parameters whose value is blank *)
parse_qs_keep_blank_values(query) ==
    [name \in { query[n].name : n \in 1 .. Len(query) } |->
        SelectSeq(query, LAMBDA nv : nv.name = name)]

(* parse_qs(query): the parameters with a value that is not blank, each    *)
(* name with its list of values                                            *)
parse_qs(query) ==
    LET kept == SelectSeq(query, LAMBDA nv : nv.value # "") IN
    [name \in { kept[n].name : n \in 1 .. Len(kept) } |->
        SelectSeq(kept, LAMBDA nv : nv.name = name)]

(* LinkedInClient._determine_challenge_type *)
determine_challenge_type(challenge_url, response_data) ==
    LET parsed_url   == value_of(challenge_url)
        path         == lower(parsed_url.path)
        query_params == parse_qs(parsed_url.query)
    IN  IF contains(path, direct_login_submit) THEN "OTP"
        ELSE IF any_in(phone_patterns, path) THEN "PHONE_REGISTER"
        ELSE IF any_in(two_factor_patterns, path) THEN "2FA"
        ELSE IF any_in(captcha_patterns, path) THEN "CAPTCHA"
        ELSE IF any_in(in_app_patterns, path) THEN "IN_APP_VALIDATION"
        ELSE IF any_in(email_patterns, path) THEN "EMAIL_VERIFICATION"
        ELSE IF any_in(security_patterns, path)
             THEN IF "addDetailedLoginResult" \in DOMAIN query_params
                  THEN "OTP"
                  ELSE "SECURITY_VERIFICATION"
        ELSE IF any_in(rate_limit_patterns, path) THEN "RATE_LIMIT"
        ELSE IF ~truthy(response_data) THEN "UNKNOWN"
        ELSE IF truthy(get(response_data, "phoneNumber", None))
             THEN "PHONE_REGISTER"
        ELSE IF \/ truthy(get(response_data, "captchaImage", None))
                \/ truthy(get(response_data, "captchaRequired", None))
             THEN "CAPTCHA"
        ELSE IF truthy(get(response_data, "twoFactorRequired", None))
             THEN "2FA"
        ELSE IF truthy(get(response_data, "emailVerificationRequired", None))
             THEN "EMAIL_VERIFICATION"
        ELSE "UNKNOWN"

----------------------------------------------------------------------------
(* routes/account.py: the challenge URLs and payloads the model tries *)

(* the pattern lists in the order _determine_challenge_type tries them *)
RulePatterns ==
    << <<direct_login_submit>>, phone_patterns, two_factor_patterns,
       captcha_patterns, in_app_patterns, email_patterns,
       security_patterns, rate_limit_patterns >>

Rules == 1 .. Len(RulePatterns)

(* a text with its lower-case letters in upper case *)
upper(s) ==
    [n \in 1 .. Len(s) |->
        IF \E c \in DOMAIN to_lower : to_lower[c] = s[n]
        THEN CHOOSE c \in DOMAIN to_lower : to_lower[c] = s[n]
        ELSE s[n]]

(* "/feed" *)
Feed == <<"/", "f", "e", "e", "d">>

(* "/checkpoint/lg/login": a path that stops short of every pattern *)
NearMiss ==
    <<"/", "c", "h", "e", "c", "k", "p", "o", "i", "n", "t", "/", "l",
      "g", "/", "l", "o", "g", "i", "n">>

(* paths no rule matches *)
UnmatchedPaths == {<<>>, Feed, NearMiss}

(* every pattern alone, every ordered pair of distinct rules in one path,  *)
(* patterns in upper case and inside a longer path, and paths no rule      *)
(* matches                                                                 *)
PathInputs ==
    UNION { { RulePatterns[r][n] : n \in 1 .. Len(RulePatterns[r]) } : r \in Rules }
      \cup { RulePatterns[a][1] \o RulePatterns[b][Len(RulePatterns[b])] :
               a \in Rules, b \in Rules }
      \cup { upper(RulePatterns[r][1]) : r \in Rules }
      \cup { Feed \o RulePatterns[r][Len(RulePatterns[r])] \o Feed : r \in Rules }
      \cup UnmatchedPaths

(* the paths among them that hold a pattern of the generic security rule   *)
SecurityPaths ==
    { RulePatterns[a][1] \o security_patterns[Len(security_patterns)] :
        a \in Rules }
      \cup { security_patterns[1] \o RulePatterns[b][Len(RulePatterns[b])] :
               b \in Rules }
      \cup { security_patterns[n] : n \in 1 .. Len(security_patterns) }

NoQuery == <<>>
DetailedQuery == <<[name |-> "addDetailedLoginResult", value |-> "true"]>>

QueryInputs ==
    { NoQuery,
      DetailedQuery,
      <<[name |-> "addDetailedLoginResult", value |-> ""]>>,
      <<[name |-> "adddetailedloginresult", value |-> "true"]>>,
      <<[name |-> "csrfToken", value |-> "ajax:1"],
        [name |-> "addDetailedLoginResult", value |-> "false"]>> }

UrlInputs ==
    { Url(p, NoQuery) : p \in PathInputs }
      \cup { Url(p, DetailedQuery) : p \in SecurityPaths \cup UnmatchedPaths }
      \cup { Url(p, q) : p \in {security_patterns[1], upper(security_patterns[1])},
                         q \in QueryInputs }

AllHints ==
    Dict(<< Item("phoneNumber", Str("+15550100")),
            Item("captchaRequired", Bool(TRUE)),
            Item("twoFactorRequired", Bool(TRUE)),
            Item("emailVerificationRequired", Bool(TRUE)) >>)

PayloadInputs ==
    { None,
      Dict(<<>>),
      Dict(<< Item("phoneNumber", Str("+15550100")) >>),
      Dict(<< Item("captchaImage", Str("data:image/png;base64")) >>),
      Dict(<< Item("captchaRequired", Bool(TRUE)) >>),
      Dict(<< Item("twoFactorRequired", Bool(TRUE)) >>),
      Dict(<< Item("emailVerificationRequired", Bool(TRUE)) >>),
      AllHints,
      Dict(<< Item("captchaRequired", Bool(TRUE)),
              Item("twoFactorRequired", Bool(TRUE)),
              Item("emailVerificationRequired", Bool(TRUE)) >>),
      Dict(<< Item("twoFactorRequired", Bool(TRUE)),
              Item("emailVerificationRequired", Bool(TRUE)) >>),
      Dict(<< Item("phoneNumber", Str("")),
              Item("twoFactorRequired", Bool(TRUE)) >>),
      Dict(<< Item("captchaImage", None),
              Item("captchaRequired", Bool(FALSE)),
              Item("emailVerificationRequired", Bool(TRUE)) >>),
      Dict(<< Item("twoFactorRequired", Bool(FALSE)) >>),
      Dict(<< Item("login_result", Str("CHALLENGE")) >>) }

ClassifyInputs ==
    { <<u, AllHints>> : u \in UrlInputs }
      \cup { <<Url(RulePatterns[r][1], NoQuery), None>> : r \in Rules }
      \cup { <<Url(p, q), d>> : p \in UnmatchedPaths, q \in {NoQuery, DetailedQuery},
                                d \in PayloadInputs }

----------------------------------------------------------------------------
(* routes/account.py: LinkedInClient and the handlers *)

HTTP_202_ACCEPTED == 202
HTTP_500_INTERNAL_SERVER_ERROR == 500

(* how a block of Python ends: raise, return, or running off its end *)
Raise(status_code, detail) ==
    [kind |-> "raise", status_code |-> status_code, detail |-> detail]
Return(value) == [kind |-> "return", value |-> value]
Pass == [kind |-> "pass"]

(* an exception that is not an HTTPException *)
NoStatus == 0
PythonError(name) == Raise(NoStatus, name)

(* res.json() of a body that is not JSON *)
NotJson == <<"malformed", "JSONDecodeError">>

(* the try statement taking every answer that is JSON for a pass *)
process_login_response_no_challenge(res) ==
    IF type_of(res.json) = "malformed" THEN PythonError("JSONDecodeError")
    ELSE Pass

(* the body of the try statement of authenticate_with_credentials *)
process_login_response(res) ==
    LET data == res.json IN
    IF type_of(data) = "malformed" THEN PythonError("JSONDecodeError")
    ELSE IF ~truthy(data) THEN Pass
    ELSE IF type_of(data) # "dict" THEN PythonError("AttributeError")
    ELSE IF eq_str(get(data, "login_result", None), "CHALLENGE")
         THEN LET challenge_url == get(data, "challenge_url", Url(<<>>, <<>>)) IN
              IF type_of(challenge_url) # "url" THEN PythonError("TypeError")
              ELSE Return([status |-> "CHALLENGE",
                           challenge_type |->
                               determine_challenge_type(challenge_url, data),
                           challenge_url |-> challenge_url,
                           challenge_metadata |->
                               [challenge_id |-> get(data, "challenge_id", None),
                                session_id |-> get(data, "pSIdString", None),
                                csrf_token |-> get(data, "csrfToken", None),
                                requires_phone |->
                                    get(data, "requiresPhone", Bool(FALSE)),
                                requires_captcha |->
                                    get(data, "requiresCaptcha", Bool(FALSE))]])
    ELSE IF ~eq_str(get(data, "login_result", None), "PASS")
         THEN Raise(HTTP_401_UNAUTHORIZED,
                    <<"LinkedIn authentication failed: ",
                      get(data, "login_result", None)>>)
    ELSE Pass

(* except Exception as e: raise HTTPException(500, ...) *)
except_Exception(outcome) ==
    IF outcome.kind = "raise"
    THEN Raise(HTTP_500_INTERNAL_SERVER_ERROR,
               "Error processing LinkedIn authentication response")
    ELSE outcome

(* LinkedInClient.authenticate_with_credentials, given the answer res of   *)
(* the provider to the POST and the session's cookies after it             *)
authenticate_with_credentials(res) ==
    IF res.status_code # HTTP_200_OK
    THEN Raise(HTTP_401_UNAUTHORIZED,
               "LinkedIn authentication failed. Invalid credentials.")
    ELSE LET outcome == except_Exception(process_login_response(res)) IN
         IF outcome.kind # "pass" THEN outcome
         ELSE IF res.li_at = ""
              THEN Raise(HTTP_401_UNAUTHORIZED,
                         "LinkedIn authentication failed. Could not obtain access token.")
              ELSE Return([access_token |-> res.li_at, premium_token |-> res.li_a])

(* the requests authenticate_with_credentials sends *)
credential_calls == <<"GET /uas/authenticate", "POST /uas/authenticate">>

(* authenticate_with_cookies taking every answer of the probe as success *)
authenticate_with_cookies_unchecked(res) == Return(TRUE)

(* LinkedInClient.authenticate_with_cookies, given the answer res of the   *)
(* provider to the probe                                                   *)
authenticate_with_cookies(res) ==
    IF res.status_code # HTTP_200_OK
    THEN Raise(HTTP_401_UNAUTHORIZED,
               "LinkedIn authentication failed. Invalid access token.")
    ELSE Return(TRUE)

(* the requests authenticate_with_cookies sends *)
cookie_calls == <<"GET /voyager/api/me">>

(* provider: Literal["LINKEDIN"] of the request models *)
valid_provider(body) == body.provider = "LINKEDIN"

LinkedInAuthResponse(account_id) ==
    [object |-> "AccountCreated", account_id |-> account_id]

LinkedInCheckpointResponse(account_id, checkpoint) ==
    [object |-> "Checkpoint", account_id |-> account_id, checkpoint |-> checkpoint]

(* a request, its status and body, and the requests sent to the provider   *)
(* while it was served                                                     *)
Exchange(op, who, arg, st, body, calls) ==
    [op |-> op, who |-> who, arg |-> arg, status |-> st, body |-> body,
     calls |-> calls]

----------------------------------------------------------------------------
(* routes/account.py: inputs *)

(* str(uuid.uuid4()) *)
AccountIds == {"3f2b", "9c4e"}

LinkedInBasicAuth(provider) ==
    [model |-> "LinkedInBasicAuth", provider |-> provider,
     username |-> "user@example.com", password |-> "secret"]

LinkedInCookieAuth(provider) ==
    [model |-> "LinkedInCookieAuth", provider |-> provider,
     access_token |-> "AQEDAT", premium_token |-> "None"]

AuthInputs ==
    { LinkedInBasicAuth("LINKEDIN"), LinkedInBasicAuth("TWITTER"),
      LinkedInCookieAuth("LINKEDIN") }

ChallengeUrls ==
    { Url(direct_login_submit, NoQuery),
      Url(two_factor_patterns[1], NoQuery),
      Url(upper(captcha_patterns[1]), NoQuery),
      Url(security_patterns[1], DetailedQuery),
      Url(security_patterns[1], NoQuery),
      Url(Feed, NoQuery) }

(* what the provider may answer to the POST: no JSON, null, {}, a string,  *)
(* PASS, other results, and challenges with and without URL and hints      *)
LoginPayloads ==
    { NotJson, None, Dict(<<>>), Str("ok"),
      Dict(<< Item("login_result", Str("PASS")) >>),
      Dict(<< Item("login_result", Str("BAD_PASSWORD")) >>),
      Dict(<< Item("login_result", None) >>),
      Dict(<< Item("error", Str("unavailable")) >>),
      Dict(<< Item("login_result", Str("CHALLENGE")) >>),
      Dict(<< Item("login_result", Str("CHALLENGE")),
              Item("challenge_url", None) >>),
      Dict(<< Item("login_result", Str("CHALLENGE")),
              Item("challenge_url", Url(Feed, NoQuery)),
              Item("twoFactorRequired", Bool(TRUE)) >>),
      Dict(<< Item("login_result", Str("CHALLENGE")),
              Item("challenge_url", Url(two_factor_patterns[1], NoQuery)),
              Item("phoneNumber", Str("+15550100")),
              Item("challenge_id", Str("c1")) >>) }
      \cup { Dict(<< Item("login_result", Str("CHALLENGE")),
                     Item("challenge_url", u) >>) :
               u \in ChallengeUrls }

(* answers of the provider to POST /uas/authenticate with the session's    *)
(* li_at and li_a cookies after it                                         *)
LoginResponses ==
    { [status_code |-> HTTP_200_OK, json |-> d, li_at |-> c, li_a |-> ""] :
        d \in LoginPayloads, c \in {"", "AQEDAT"} }
      \cup { [status_code |-> HTTP_401_UNAUTHORIZED, json |-> d,
               li_at |-> "AQEDAT", li_a |-> ""] :
               d \in { NotJson, Dict(<< Item("login_result", Str("PASS")) >>),
                        Dict(<< Item("login_result", Str("CHALLENGE")) >>) } }

(* answers of the provider to the probe GET /me *)
ProbeResponses ==
    { [status_code |-> s] :
        s \in {HTTP_200_OK, HTTP_401_UNAUTHORIZED, HTTP_403_FORBIDDEN} }

SolveInputs ==
    { [provider |-> p, account_id |-> a, code |-> c] :
        p \in {"LINKEDIN"}, a \in AccountIds \cup {"unknown"},
        c \in {"123456", "000000"} }
      \cup { [provider |-> "TWITTER", account_id |-> "3f2b", code |-> "123456"] }

----------------------------------------------------------------------------
(* routes/account.py: state machine *)

AccountInit ==
    /\ keys = <<>>
    /\ now = 0
    /\ revokedOk = {}
    /\ last = Exchange("init", Nobody, NoArg, 0, NoBody, <<>>)
    /\ inflight = [p \in Processes |-> Idle]

(* a call of LinkedInClient._determine_challenge_type *)
classify(challenge_url, response_data) ==
    /\ UNCHANGED <<keys, now, revokedOk, inflight>>
    /\ last' = Exchange("classify", Nobody, <<challenge_url, response_data>>, 0,
                        determine_challenge_type(challenge_url, response_data),
                        <<>>)

(* the answer to POST /accounts; res is what the provider answers to the   *)
(* POST of the credentials or to the probe, account_id the uuid4 drawn     *)
connect_response(user, auth_data, res, account_id) ==
    IF ~valid_provider(auth_data)
    THEN Exchange("connect", user, <<auth_data, res>>,
                          HTTP_422_UNPROCESSABLE, NoBody, <<>>)
    ELSE IF auth_data.model = "LinkedInBasicAuth"
    THEN LET auth_result == authenticate_with_credentials(res) IN
         IF auth_result.kind = "raise"
         THEN Exchange("connect", user, <<auth_data, res>>,
                               auth_result.status_code,
                               [detail |-> auth_result.detail],
                               credential_calls)
         ELSE IF "status" \in DOMAIN auth_result.value
                 /\ auth_result.value.status = "CHALLENGE"
         THEN Exchange("connect", user, <<auth_data, res>>,
                               HTTP_202_ACCEPTED,
                               LinkedInCheckpointResponse(account_id,
                                   [type |-> auth_result.value.challenge_type,
                                    url |-> auth_result.value.challenge_url]),
                               credential_calls)
         ELSE Exchange("connect", user, <<auth_data, res>>,
                               HTTP_201_CREATED,
                               LinkedInAuthResponse(account_id),
                               credential_calls)
    ELSE LET auth_result == authenticate_with_cookies(res) IN
         IF auth_result.kind = "raise"
         THEN Exchange("connect", user, <<auth_data, res>>,
                               auth_result.status_code,
                               [detail |-> auth_result.detail],
                               cookie_calls)
         ELSE Exchange("connect", user, <<auth_data, res>>,
                               HTTP_201_CREATED,
                               LinkedInAuthResponse(account_id),
                               cookie_calls)

(* the answer to POST /accounts/checkpoint; below_tenth is                 *)
(* random.random() < 0.1                                                   *)
solve_response(user, checkpoint_data, below_tenth) ==
    IF ~valid_provider(checkpoint_data)
    THEN Exchange("solve", user, checkpoint_data,
                          HTTP_422_UNPROCESSABLE, NoBody, <<>>)
    ELSE IF below_tenth
    THEN Exchange("solve", user, checkpoint_data, HTTP_202_ACCEPTED,
                          LinkedInCheckpointResponse(
                              checkpoint_data.account_id,
                              [type |-> "OTP",
                               message |-> "Please enter the OTP sent to your email"]),
                          <<>>)
    ELSE Exchange("solve", user, checkpoint_data, HTTP_200_OK,
                          LinkedInAuthResponse(checkpoint_data.account_id),
                          <<>>)

(* POST /accounts *)
connect_linkedin_account(user, auth_data, res, account_id) ==
    /\ UNCHANGED <<keys, now, revokedOk, inflight>>
    /\ last' = connect_response(user, auth_data, res, account_id)

(* POST /accounts/checkpoint *)
solve_linkedin_checkpoint(user, checkpoint_data, below_tenth) ==
    /\ UNCHANGED <<keys, now, revokedOk, inflight>>
    /\ last' = solve_response(user, checkpoint_data, below_tenth)

(* GET /accounts/{account_id} *)
get_linkedin_account(user, account_id) ==
    /\ UNCHANGED <<keys, now, revokedOk, inflight>>
    /\ last' = Exchange("account", user, account_id, HTTP_200_OK,
                        [object |-> "Account", type |-> "LINKEDIN",
                         id |-> account_id,
                         name |-> <<"LinkedIn Account for ", user>>,
                         created_at |-> now,
                         connection_params |->
                             [linkedin |-> [username |-> "user@example.com"]],
                         sources |-> <<[id |-> "linkedin_primary", status |-> "OK"]>>,
                         groups |-> <<>>],
                        <<>>)

AccountNext ==
    \/ \E c \in ClassifyInputs : classify(c[1], c[2])
    \/ \E u \in Users, a \in AuthInputs, id \in AccountIds :
         \E res \in (IF a.model = "LinkedInBasicAuth"
                     THEN LoginResponses ELSE ProbeResponses) :
           connect_linkedin_account(u, a, res, id)
    \/ \E u \in Users, c \in SolveInputs, below_tenth \in BOOLEAN :
         solve_linkedin_checkpoint(u, c, below_tenth)
    \/ \E u \in Users, id \in AccountIds \cup {"unknown"} :
         get_linkedin_account(u, id)

SpecAccount == AccountInit /\ [][AccountNext]_vars

----------------------------------------------------------------------------
(* routes/account.py: requests in flight.  A handler that calls the        *)
(* provider stays in requests.get / session.post / session.get until the   *)
(* provider answers; solve_linkedin_checkpoint stays in time.sleep.        *)

(* the callers, the bodies of POST /accounts and of POST                   *)
(* /accounts/checkpoint, and the answers of the provider                   *)
CallUsers == {"u1"}

CallAuthInputs ==
    { LinkedInBasicAuth("LINKEDIN"), LinkedInBasicAuth("TWITTER"),
      LinkedInCookieAuth("LINKEDIN") }

CallLoginResponses ==
    { [status_code |-> HTTP_200_OK,
       json |-> Dict(<< Item("login_result", Str("PASS")) >>),
       li_at |-> "AQEDAT", li_a |-> ""],
      [status_code |-> HTTP_200_OK,
       json |-> Dict(<< Item("login_result", Str("CHALLENGE")) >>),
       li_at |-> "", li_a |-> ""],
      [status_code |-> HTTP_401_UNAUTHORIZED, json |-> NotJson,
       li_at |-> "AQEDAT", li_a |-> ""] }

CallProbeResponses ==
    { [status_code |-> s] : s \in {HTTP_200_OK, HTTP_401_UNAUTHORIZED} }

CallSolveInputs ==
    { [provider |-> "LINKEDIN", account_id |-> "3f2b", code |-> "123456"],
      [provider |-> "LINKEDIN", account_id |-> "9c4e", code |-> "123456"],
      [provider |-> "TWITTER", account_id |-> "3f2b", code |-> "123456"] }

(* the answer of a handler, as the process keeps it *)
Answered(e) ==
    Request("done", e.op, e.who, e.arg, NoBody, {}, e.status, e.body)

(* the handler waiting on a call to the provider *)
Awaiting(op, who, arg, call) ==
    Request("await", op, who, arg, call, {}, 0, NoBody)

(* POST /accounts arrives: the body is validated and the handler sends its *)
(* first request to the provider, with no timeout                          *)
connect_call(p, user, auth_data) ==
    /\ inflight[p].pc \in {"idle", "done"}
    /\ UNCHANGED <<keys, now, revokedOk, last>>
    /\ IF ~valid_provider(auth_data)
       THEN inflight' = arrive(inflight, p,
                Request("done", "connect", user, auth_data, NoBody, {},
                        HTTP_422_UNPROCESSABLE, NoBody))
       ELSE IF auth_data.model = "LinkedInBasicAuth"
       THEN inflight' = arrive(inflight, p,
                Awaiting("connect", user, auth_data, credential_calls[1]))
       ELSE inflight' = arrive(inflight, p,
                Awaiting("connect", user, auth_data, cookie_calls[1]))

(* the provider answers GET /uas/authenticate with the session cookies and *)
(* authenticate_with_credentials posts the credentials, with no timeout    *)
session_cookies_answer(p) ==
    /\ inflight[p].pc = "await"
    /\ inflight[p].obj = credential_calls[1]
    /\ UNCHANGED <<keys, now, revokedOk, last>>
    /\ inflight' = proceed(inflight, p,
           Awaiting("connect", inflight[p].who, inflight[p].arg,
                    credential_calls[2]))

(* the provider answers the POST of the credentials, or the probe, with    *)
(* res, and connect_linkedin_account runs to its end                       *)
provider_answer(p, res, account_id) ==
    /\ inflight[p].pc = "await"
    /\ inflight[p].obj \in {credential_calls[2], cookie_calls[1]}
    /\ UNCHANGED <<keys, now, revokedOk, last>>
    /\ LET e == connect_response(inflight[p].who, inflight[p].arg, res, account_id)
       IN  inflight' = proceed(inflight, p,
               Request("done", "connect", e.who, inflight[p].arg, NoBody, {},
                       e.status, e.body))

(* POST /accounts/checkpoint arrives: the body is validated and the handler *)
(* enters time.sleep(0.5)                                                  *)
solve_call(p, user, checkpoint_data) ==
    /\ inflight[p].pc \in {"idle", "done"}
    /\ UNCHANGED <<keys, now, revokedOk, last>>
    /\ IF ~valid_provider(checkpoint_data)
       THEN inflight' = arrive(inflight, p,
                Answered(solve_response(user, checkpoint_data, FALSE)))
       ELSE inflight' = arrive(inflight, p,
                Request("sleep", "solve", user, checkpoint_data, NoBody, {},
                        0, NoBody))

(* solve_linkedin_checkpoint after the sleep, to its end *)
solve_return(p, below_tenth) ==
    /\ inflight[p].pc = "sleep"
    /\ UNCHANGED <<keys, now, revokedOk, last>>
    /\ inflight' = proceed(inflight, p,
           Answered(solve_response(inflight[p].who, inflight[p].arg, below_tenth)))

(* time passes while requests are in flight *)
CallsTick ==
    /\ now < MaxTime
    /\ now' = now + 1
    /\ UNCHANGED <<keys, revokedOk, last, inflight>>

CallsNext ==
    \/ \E p \in Processes, u \in CallUsers, a \in CallAuthInputs :
         connect_call(p, u, a)
    \/ \E p \in Processes : session_cookies_answer(p)
    \/ \E p \in Processes, id \in AccountIds :
         \E res \in (IF inflight[p].obj = cookie_calls[1]
                     THEN CallProbeResponses ELSE CallLoginResponses) :
           provider_answer(p, res, id)
    \/ \E p \in Processes, u \in CallUsers, c \in CallSolveInputs :
         solve_call(p, u, c)
    \/ \E p \in Processes, below_tenth \in BOOLEAN : solve_return(p, below_tenth)
    \/ CallsTick

SpecCalls == AccountInit /\ [][CallsNext]_vars

(* the handlers' own steps are taken and time passes; nothing makes the    *)
(* provider answer or a client call                                        *)
CallsFairness ==
    /\ \A p \in Processes :
         WF_vars(\E below_tenth \in BOOLEAN : solve_return(p, below_tenth))
    /\ WF_vars(CallsTick)

SpecCallsFair == AccountInit /\ [][CallsNext]_vars /\ CallsFairness

----------------------------------------------------------------------------
(* Properties *)

KeyRows == 1 .. Len(keys)

(* the header a validate / authorize request carried *)
PresentedHeader == IF last.op = "validate" THEN last.arg ELSE last.arg[1]

GateOps == {"validate", "authorize"}

AllRequired == RequiredInputs \cup {<<>>}

(* C1: once DELETE /api-keys/{id} has answered 204 for a key, every gated  *)
(* call and every validate that presents the key's secret is refused with  *)
(* 401, whatever happened in between and whatever scopes are required; the *)
(* key stays revoked.                                                      *)
RevokedKeyStaysUnauthorized ==
    /\ \A i \in revokedOk :
         /\ i \in KeyRows
         /\ keys[i].revoked
         /\ get_api_key(keys, keys[i].key, now) = NoRow
         /\ \A r \in AllRequired :
              authorize(keys, keys[i].key, r, now).status = HTTP_401_UNAUTHORIZED
    /\ (last.op \in GateOps /\ \E i \in revokedOk : keys[i].key = PresentedHeader)
         => last.status = HTTP_401_UNAUTHORIZED

(* a gated call with the secret of a revoked key that had been in use and  *)
(* has not expired was refused                                             *)
RevokedKeyRefusedWitness ==
    /\ last.op = "authorize"
    /\ last.status = HTTP_401_UNAUTHORIZED
    /\ \E i \in revokedOk :
         /\ keys[i].key = last.arg[1]
         /\ keys[i].last_used_at # NULL
         /\ keys[i].expires_at > now

(* the condition the specification gives for validate to succeed *)
UsableAt(k, t) ==
    k.is_active /\ ~k.revoked /\ (k.expires_at = NULL \/ k.expires_at > t)

(* C2: validate succeeds only for a row that is active, not revoked and    *)
(* whose expires_at is null or later than now (so a key is refused at the  *)
(* instant now = expires_at); no header and an unknown secret are refused. *)
ValidateOnlyIfUsable ==
    /\ \A h \in Headers :
         LET i == get_api_key(keys, h, now) IN
         i # NoRow => (h # NoHeader /\ keys[i].key = h /\ UsableAt(keys[i], now))
    /\ (last.op = "validate" /\ last.status = HTTP_200_OK)
         => UsableAt(last.body, now)

(* C3: the gate answers 401 for a missing or invalid key whatever is       *)
(* required; for a valid key it answers 403 exactly when some required     *)
(* scope is not among the key's scopes and otherwise hands the key row on; *)
(* so acceptance for R gives acceptance for every subset of R, and a key   *)
(* holding accounts:read alone is refused 403 for accounts:write and       *)
(* accepted for accounts:read.                                             *)
ScopeGateDecision ==
    /\ \A h \in Headers, r \in AllRequired :
         LET i   == get_api_key(keys, h, now)
             res == authorize(keys, h, r, now)
         IN  IF i = NoRow
             THEN res.status = HTTP_401_UNAUTHORIZED
             ELSE /\ res.status = HTTP_403_FORBIDDEN
                       <=> ~(Range(r) \subseteq Range(keys[i].scopes))
                  /\ res.status # HTTP_403_FORBIDDEN
                       => /\ res.status = HTTP_200_OK
                          /\ res.body = [keys[i] EXCEPT !.last_used_at = now]
                  /\ res.status = HTTP_200_OK
                       => \A r2 \in AllRequired :
                            Range(r2) \subseteq Range(r)
                              => authorize(keys, h, r2, now).status = HTTP_200_OK
                  /\ Range(keys[i].scopes) = {ACCOUNTS_READ}
                       => /\ authorize(keys, h, <<ACCOUNTS_WRITE>>, now).status
                               = HTTP_403_FORBIDDEN
                          /\ authorize(keys, h, <<ACCOUNTS_READ>>, now).status
                               = HTTP_200_OK
    /\ last.op = "authorize"
         => /\ last.status \in {HTTP_200_OK, HTTP_401_UNAUTHORIZED, HTTP_403_FORBIDDEN}
            /\ last.status = HTTP_200_OK
                 => Range(last.arg[2]) \subseteq Range(last.body.scopes)

(* a valid key holding accounts:read alone met 403 at a gate requiring     *)
(* accounts:write                                                          *)
ScopeGateWitness ==
    /\ last.op = "authorize"
    /\ last.status = HTTP_403_FORBIDDEN
    /\ last.arg[2] = <<ACCOUNTS_WRITE>>
    /\ \E i \in KeyRows :
         /\ keys[i].key = last.arg[1]
         /\ keys[i].scopes = <<ACCOUNTS_READ>>
         /\ keys[i].last_used_at = now

(* the text columns of a stored row *)
StoredText(k) == {k.key, k.key_prefix, k.hashed_key}

(* C4: no stored row holds a raw secret: of the secret handed out by       *)
(* POST /api-keys the table keeps the 8-character prefix and the hash.     *)
NoStoredRawSecret ==
    /\ \A i \in KeyRows : StoredText(keys[i]) \cap Secrets = {}
    /\ (last.op = "create" /\ last.status = HTTP_201_CREATED)
         => last.body.key \notin StoredText(keys[last.body.id])

(* the table with the plaintext column blanked *)
Scrubbed(store) == [i \in 1 .. Len(store) |-> [store[i] EXCEPT !.key = NoHeader]]

(* C5: validate finds the row by the hash of the presented secret: the row *)
(* returned for s is the one whose hashed_key is Hash(s), and the decision *)
(* reads no stored plaintext (it is the same with the plaintext blanked).  *)
ValidateByHashOnly ==
    \A h \in Headers :
        LET i == get_api_key(keys, h, now) IN
        /\ i # NoRow => keys[i].hashed_key = Hash(h)
        /\ get_api_key(Scrubbed(keys), h, now) = i

(* C6: every row with revoked = true has is_active = false, and a row is   *)
(* created with revoked = false and is_active = true.                      *)
RevokedImpliesInactive ==
    /\ \A i \in KeyRows : keys[i].revoked => ~keys[i].is_active
    /\ (last.op = "create" /\ last.status = HTTP_201_CREATED)
         => /\ ~keys[last.body.id].revoked
            /\ keys[last.body.id].is_active

(* a key has been revoked by its owner *)
RevokedRowWitness ==
    /\ last.op = "revoke"
    /\ last.status = HTTP_204_NO_CONTENT
    /\ keys[last.arg].revoked
    /\ keys[last.arg].revoked_at = now

(* a revoke step on a row that is already revoked *)
SecondRevoke ==
    /\ last'.op = "revoke"
    /\ last'.status = HTTP_204_NO_CONTENT
    /\ keys[last'.arg].revoked

(* C7: revoke is idempotent: revoking a key that is already revoked        *)
(* answers success and leaves the row as the first revoke left it,         *)
(* revoked_at included.                                                    *)
RevokeIdempotent ==
    [][ /\ (last'.op = "revoke" /\ last'.arg \in revokedOk
                /\ keys[last'.arg].owner_id = last'.who)
             => last'.status = HTTP_204_NO_CONTENT
        /\ SecondRevoke => keys' = keys ]_vars

(* what the specification asks of the body of POST /api-keys *)
ValidIssue(scopes, expiry_days) ==
    /\ Len(scopes) > 0
    /\ Range(scopes) \subseteq ScopeType
    /\ expiry_days >= 1
    /\ expiry_days <= 365

StoredScopesValid ==
    \A i \in KeyRows : keys[i].scopes # <<>> /\ Range(keys[i].scopes) \subseteq ScopeType

IssueStep ==
    /\ Len(keys') > Len(keys)
         => /\ last'.op = "create"
            /\ last'.status = HTTP_201_CREATED
            /\ ValidIssue(last'.arg[1], last'.arg[2])
            /\ keys' = Append(keys, keys'[Len(keys')])
            /\ keys'[Len(keys')].expires_at = now + last'.arg[2]
            /\ keys'[Len(keys')].scopes = last'.arg[1]
            /\ keys'[Len(keys')].owner_id = last'.who
    /\ (last'.op = "create" /\ ~ValidIssue(last'.arg[1], last'.arg[2]))
         => /\ last'.status = HTTP_422_UNPROCESSABLE
            /\ keys' = keys

(* C8: POST /api-keys adds a row only when expiry_days is in 1..365 and    *)
(* the scopes are a non-empty list of ScopeType members; the row then has  *)
(* expires_at = now + expiry_days and the scopes asked for; any other body *)
(* is answered 422 and leaves the table as it was; so every stored row has *)
(* a non-empty scope list inside the universe.                             *)
IssueContract == []StoredScopesValid /\ [][IssueStep]_vars

(* a body with expiry_days above the range was refused while a key exists *)
IssueRefusedWitness ==
    /\ last.op = "create"
    /\ last.status = HTTP_422_UNPROCESSABLE
    /\ last.arg[2] = 366
    /\ Len(keys) = 1
    /\ keys[1].expires_at = keys[1].created_at + 365

TextFields == {"key", "key_prefix", "hashed_key"}

(* the text values a response record carries *)
ResponseText(p) == { p[f] : f \in DOMAIN p \cap TextFields }

(* C9: for every issued key the stored prefix is the first 8 characters of *)
(* the raw secret returned and the stored hash is Hash(raw secret); the    *)
(* list and detail responses never carry a raw secret.                     *)
IssuanceRoundTrip ==
    /\ (last.op = "create" /\ last.status = HTTP_201_CREATED)
         => LET raw == last.body.key
                row == keys[last.body.id]
            IN  /\ raw \in Secrets
                /\ Len(raw) > 8
                /\ row.key_prefix = SubSeq(raw, 1, 8)
                /\ row.hashed_key = Hash(raw)
                /\ last.body.key_prefix = row.key_prefix
    /\ \A i \in KeyRows :
         /\ keys[i].key_prefix = SubSeq(keys[i].key, 1, 8)
         /\ keys[i].hashed_key = Hash(keys[i].key)
         /\ ResponseText(ApiKeyPublic(keys[i], now)) \cap Secrets = {}
    /\ \A q \in ListInputs :
         LET body == list_body(keys, q[1], q[2], q[3], q[4], q[5], now) IN
         \A n \in 1 .. Len(body.data) : ResponseText(body.data[n]) \cap Secrets = {}
    /\ last.op = "list"
         => \A n \in 1 .. Len(last.body.data) :
              ResponseText(last.body.data[n]) \cap Secrets = {}
    /\ (last.op = "detail" /\ last.status = HTTP_200_OK)
         => ResponseText(last.body) \cap Secrets = {}

(* a list read after issuance returned both keys of a user *)
ReadAfterIssueWitness ==
    /\ last.op = "list"
    /\ Len(last.body.data) = 2
    /\ last.body.data[1].key_prefix = SubSeq(keys[1].key, 1, 8)

(* the columns of a row other than last_used_at, revoked, revoked_at and   *)
(* is_active                                                               *)
Fixed(k) ==
    <<k.id, k.name, k.key, k.key_prefix, k.hashed_key, k.owner_id, k.scopes,
      k.expires_at, k.created_at>>

FrameStep ==
    /\ Len(keys') >= Len(keys)
    /\ \A i \in KeyRows :
         /\ Fixed(keys'[i]) = Fixed(keys[i])
         /\ keys'[i] # keys[i]
              => \/ /\ last'.op \in GateOps
                    /\ last'.status # HTTP_401_UNAUTHORIZED
                    /\ keys' = [keys EXCEPT ![i].last_used_at = now]
                 \/ /\ last'.op = "revoke"
                    /\ last'.status = HTTP_204_NO_CONTENT
                    /\ last'.arg = i
                    /\ keys'[i].last_used_at = keys[i].last_used_at
                    /\ \A j \in KeyRows \ {i} : keys'[j] = keys[j]
    /\ (last'.op \in GateOps /\ last'.status = HTTP_401_UNAUTHORIZED)
         => keys' = keys
    /\ (last'.op \in GateOps /\ last'.status # HTTP_401_UNAUTHORIZED)
         => \E i \in KeyRows : keys' = [keys EXCEPT ![i].last_used_at = now]

(* C10: after creation a row is changed only by validate and revoke: a     *)
(* successful validate sets last_used_at to now and nothing else, a        *)
(* refused validate changes nothing, revoke changes only revoked,          *)
(* revoked_at and is_active of its target, no row is ever deleted, and id, *)
(* owner, scopes, prefix, hash and expires_at never change.                *)
LifecycleFrame == [][FrameStep]_vars

(* a validate succeeded on one of two stored keys and stamped it alone *)
ValidateStampWitness ==
    /\ last.op = "validate"
    /\ last.status = HTTP_200_OK
    /\ Len(keys) = 2
    /\ now > 0
    /\ \E i \in KeyRows :
         /\ keys[i].key = last.arg
         /\ keys[i].last_used_at = now
         /\ \A j \in KeyRows \ {i} : keys[j].last_used_at # now

(* the reasons for which get_api_key returns None for a presented header *)
RefusalReasons(store, h, t) ==
    LET i == find_api_key(store, h) IN
    (IF h = NoHeader THEN {"missing"} ELSE {})
      \cup (IF h # NoHeader /\ i = NoRow THEN {"unknown"} ELSE {})
      \cup (IF h # NoHeader /\ i # NoRow /\ store[i].revoked THEN {"revoked"} ELSE {})
      \cup (IF h # NoHeader /\ i # NoRow /\ ~store[i].is_active THEN {"inactive"} ELSE {})
      \cup (IF h # NoHeader /\ i # NoRow /\ store[i].expires_at # NULL
                /\ store[i].expires_at < t THEN {"expired"} ELSE {})

(* the one answer of the gate to a key it does not accept *)
Unauthorized == [status |-> HTTP_401_UNAUTHORIZED, body |-> DetailInvalid]

(* tables the stored one could become by clearing is_active of one row *)
Deactivations == {keys} \cup { [keys EXCEPT ![i].is_active = FALSE] : i \in KeyRows }

(* C11: a key whose expires_at is in the past, a revoked key, a key with   *)
(* is_active false and a secret no row holds are all refused alike:        *)
(* validate returns no row and leaves the table as it was, and the gate    *)
(* answers 401 with one and the same detail whatever scopes are required,  *)
(* so the answer does not tell which reason applied.                       *)
UniformRefusal ==
    /\ \A store \in Deactivations, h \in Headers :
         RefusalReasons(store, h, now) # {}
           => /\ get_api_key(store, h, now) = NoRow
              /\ get_api_key_commit(store, h, now) = store
              /\ \A r \in AllRequired : authorize(store, h, r, now) = Unauthorized
    /\ (last.op = "authorize" /\ RefusalReasons(keys, last.arg[1], now) # {})
         => [status |-> last.status, body |-> last.body] = Unauthorized
    /\ (last.op = "validate" /\ RefusalReasons(keys, last.arg, now) # {})
         => /\ last.status = HTTP_401_UNAUTHORIZED
            /\ last.body = NoBody

(* a gated call presenting a key that has expired and was never revoked    *)
(* was refused while the table also holds a revoked key that has not       *)
(* expired, and a secret no row holds is refused with the same answer      *)
UniformRefusalWitness ==
    /\ last.op = "authorize"
    /\ [status |-> last.status, body |-> last.body] = Unauthorized
    /\ RefusalReasons(keys, last.arg[1], now) = {"expired"}
    /\ \E j \in KeyRows :
         RefusalReasons(keys, keys[j].key, now) = {"revoked", "inactive"}
    /\ \E h \in Headers : RefusalReasons(keys, h, now) = {"missing"}

(* the required scopes a key row lacks *)
MissingScopes(required_scopes, k) == Range(required_scopes) \ Range(k.scopes)

(* the scopes a 403 answer of the gate names *)
ReportedScopes(body) == {body[2]}

(* C12 as the specification states it: a 403 of the gate reports the whole *)
(* set required \ key.scopes, also when more than one scope is missing.    *)
ForbiddenReportsAllMissing ==
    /\ \A h \in Headers, r \in AllRequired :
         LET i   == get_api_key(keys, h, now)
             res == authorize(keys, h, r, now)
         IN  res.status = HTTP_403_FORBIDDEN
               => ReportedScopes(res.body) = MissingScopes(r, keys[i])
    /\ (last.op = "authorize" /\ last.status = HTTP_403_FORBIDDEN)
         => \E i \in KeyRows :
              /\ keys[i].key = last.arg[1]
              /\ ReportedScopes(last.body) = MissingScopes(last.arg[2], keys[i])

(* C12: a 403 of the gate names exactly one scope, the first of the        *)
(* required scopes, in the order they are required, that the key lacks;    *)
(* it is a member of required \ key.scopes and is the whole of that set    *)
(* exactly when a single required scope is missing.                        *)
ForbiddenReportsFirstMissing ==
    /\ \A h \in Headers, r \in AllRequired :
         LET i   == get_api_key(keys, h, now)
             res == authorize(keys, h, r, now)
         IN  res.status = HTTP_403_FORBIDDEN
               => /\ i # NoRow
                  /\ res.body[1] = DetailMissing(res.body[2])[1]
                  /\ \E m \in 1 .. Len(r) :
                       /\ res.body[2] = r[m]
                       /\ r[m] \in MissingScopes(r, keys[i])
                       /\ \A m2 \in 1 .. (m - 1) : r[m2] \notin MissingScopes(r, keys[i])
                  /\ (ReportedScopes(res.body) = MissingScopes(r, keys[i]))
                       <=> Cardinality(MissingScopes(r, keys[i])) = 1
    /\ (last.op = "authorize" /\ last.status = HTTP_403_FORBIDDEN)
         => \E i \in KeyRows, m \in 1 .. Len(last.arg[2]) :
              /\ keys[i].key = last.arg[1]
              /\ last.body = DetailMissing(last.arg[2][m])
              /\ last.arg[2][m] \in MissingScopes(last.arg[2], keys[i])
              /\ \A m2 \in 1 .. (m - 1) :
                   last.arg[2][m2] \notin MissingScopes(last.arg[2], keys[i])

(* a key holding accounts:read alone met 403 at a gate requiring           *)
(* webhooks:write and accounts:write: two scopes are missing and the       *)
(* answer names webhooks:write, the first of them                          *)
ForbiddenFirstMissingWitness ==
    /\ last.op = "authorize"
    /\ last.status = HTTP_403_FORBIDDEN
    /\ last.arg[2] = <<WEBHOOKS_WRITE, ACCOUNTS_WRITE>>
    /\ last.body = DetailMissing(WEBHOOKS_WRITE)
    /\ \E i \in KeyRows :
         /\ keys[i].key = last.arg[1]
         /\ MissingScopes(last.arg[2], keys[i]) = {WEBHOOKS_WRITE, ACCOUNTS_WRITE}

----------------------------------------------------------------------------
(* Properties of routes/account.py *)

(* two characters that are the same letter, whatever their case *)
SameLetter(a, b) ==
    \/ a = b
    \/ \E n \in 1 .. Len(UpperCase) : {a, b} = {UpperCase[n], LowerCase[n]}

(* the pattern stands somewhere in the path, letter case aside *)
Occurs(pattern, path) ==
    \E n \in 0 .. (Len(path) - Len(pattern)) :
        \A m \in 1 .. Len(pattern) : SameLetter(path[n + m], pattern[m])

(* the URL-path rules, numbered in the order of section 4.1, that have a   *)
(* pattern in the path                                                     *)
MatchingRules(path) ==
    { r \in Rules : \E n \in 1 .. Len(RulePatterns[r]) :
                      Occurs(RulePatterns[r][n], path) }

FirstRule(path) ==
    CHOOSE r \in MatchingRules(path) : \A r2 \in MatchingRules(path) : r <= r2

(* the query names the detailed-login-result parameter / gives it a value *)
ParamNamed(query) ==
    \E n \in 1 .. Len(query) : query[n].name = "addDetailedLoginResult"

ParamGiven(query) ==
    \E n \in 1 .. Len(query) :
        query[n].name = "addDetailedLoginResult" /\ query[n].value # ""

(* what rule r of the eight yields, two_factor being the name of the       *)
(* two-factor kind and detailed whether the parameter counts as present    *)
PathRuleKind(r, two_factor, detailed) ==
    <<"OTP", "PHONE_REGISTER", two_factor, "CAPTCHA", "IN_APP_VALIDATION",
      "EMAIL_VERIFICATION",
      IF detailed THEN "OTP" ELSE "SECURITY_VERIFICATION",
      "RATE_LIMIT">>[r]

(* the URL and the payload of a classify call *)
ClassifiedUrl == value_of(last.arg[1])
ClassifiedPayload == last.arg[2]

ChallengeKinds(two_factor) ==
    {"OTP", "PHONE_REGISTER", two_factor, "CAPTCHA", "IN_APP_VALIDATION",
     "EMAIL_VERIFICATION", "SECURITY_VERIFICATION", "RATE_LIMIT", "UNKNOWN"}

(* the payload holds the hint and its value counts as true *)
Hint(payload, key) ==
    /\ type_of(payload) = "dict"
    /\ \E n \in 1 .. Len(value_of(payload)) :
         /\ value_of(payload)[n][1] = key
         /\ LET x == value_of(payload)[n][2] IN
            \/ type_of(x) = "bool" /\ value_of(x) = TRUE
            \/ type_of(x) = "str" /\ value_of(x) # ""

(* the payload hints in the order of section 4.1 *)
Hints(payload) ==
    << Hint(payload, "phoneNumber"),
       Hint(payload, "captchaImage") \/ Hint(payload, "captchaRequired"),
       Hint(payload, "twoFactorRequired"),
       Hint(payload, "emailVerificationRequired") >>

(* every kind classify returns, and every checkpoint type a response       *)
(* carries, is of the closed set; a two-factor path and a two-factor       *)
(* payload flag both yield the two-factor kind                             *)
KindsClosed(two_factor) ==
    /\ last.op = "classify"
         => /\ last.body \in ChallengeKinds(two_factor)
            /\ (MatchingRules(ClassifiedUrl.path) # {}
                  /\ FirstRule(ClassifiedUrl.path) = 3)
                 => last.body = two_factor
            /\ (MatchingRules(ClassifiedUrl.path) = {}
                  /\ Hints(ClassifiedPayload) = <<FALSE, FALSE, TRUE, FALSE>>)
                 => last.body = two_factor
    /\ (last.op \in {"connect", "solve"} /\ last.status = HTTP_202_ACCEPTED)
         => last.body.checkpoint.type \in ChallengeKinds(two_factor)

FallbackKind(payload, two_factor) ==
    LET kinds == <<"PHONE_REGISTER", "CAPTCHA", two_factor, "EMAIL_VERIFICATION">>
        found == { n \in 1 .. Len(kinds) : Hints(payload)[n] }
    IN  IF found = {} THEN "UNKNOWN"
        ELSE kinds[CHOOSE n \in found : \A n2 \in found : n <= n2]

ExpectedKind(url, payload) ==
    IF MatchingRules(value_of(url).path) # {}
    THEN PathRuleKind(FirstRule(value_of(url).path), "2FA",
                      ParamGiven(value_of(url).query))
    ELSE FallbackKind(payload, "2FA")

(* a POST /accounts with credentials that passed validation, and what the  *)
(* provider answered to it                                                 *)
CredentialConnect ==
    /\ last.op = "connect"
    /\ last.arg[1].model = "LinkedInBasicAuth"
    /\ last.arg[1].provider = "LINKEDIN"

ProviderAnswer == last.arg[2]

(* the login_result the payload reports, "-" when it reports none *)
LoginResult(payload) ==
    IF type_of(payload) = "dict"
       /\ \E n \in 1 .. Len(value_of(payload)) :
            /\ value_of(payload)[n][1] = "login_result"
            /\ type_of(value_of(payload)[n][2]) = "str"
    THEN value_of(value_of(payload)[CHOOSE n \in 1 .. Len(value_of(payload)) :
                                      value_of(payload)[n][1] = "login_result"][2])
    ELSE "-"

(* the challenge URL of the payload: the text given, the empty text when   *)
(* the field is left out, None when it is not a text                       *)
ChallengeUrl(payload) ==
    LET at == { n \in 1 .. Len(value_of(payload)) :
                  value_of(payload)[n][1] = "challenge_url" }
    IN  IF at = {} THEN Url(<<>>, <<>>)
        ELSE LET x == value_of(payload)[CHOOSE n \in at : TRUE][2] IN
             IF type_of(x) = "url" THEN x ELSE None

(* the response says the account was created *)
AccountCreated ==
    /\ last.status \in {HTTP_200_OK, HTTP_201_CREATED}
    /\ last.body.object = "AccountCreated"

(* the response carries a checkpoint *)
CheckpointReturned ==
    /\ last.status = HTTP_202_ACCEPTED
    /\ last.body.object = "Checkpoint"

(* a challenge is surfaced as 202 with the kind classify gives, a success  *)
(* as 201 AccountCreated, and a challenge never as AccountCreated          *)
ChallengeSurfacing ==
    CredentialConnect
      => /\ (ProviderAnswer.status_code = HTTP_200_OK
               /\ LoginResult(ProviderAnswer.json) = "CHALLENGE"
               /\ ChallengeUrl(ProviderAnswer.json) # None)
              => /\ CheckpointReturned
                 /\ last.body.account_id \in AccountIds
                 /\ last.body.checkpoint.type
                      = ExpectedKind(ChallengeUrl(ProviderAnswer.json),
                                     ProviderAnswer.json)
                 /\ last.body.checkpoint.url = ChallengeUrl(ProviderAnswer.json)
         /\ LoginResult(ProviderAnswer.json) = "CHALLENGE" => ~AccountCreated
         /\ LET outcome == authenticate_with_credentials(ProviderAnswer) IN
            (outcome.kind = "return" /\ "access_token" \in DOMAIN outcome.value)
              => /\ last.status = HTTP_201_CREATED
                 /\ AccountCreated
                 /\ last.body.account_id \in AccountIds

SuccessOnlyOnPass ==
    CredentialConnect
      => /\ AccountCreated
              => /\ ProviderAnswer.status_code = HTTP_200_OK
                 /\ LoginResult(ProviderAnswer.json) = "PASS"
                 /\ ProviderAnswer.li_at # ""
         /\ (LoginResult(ProviderAnswer.json) = "PASS" /\ ProviderAnswer.li_at = "")
              => last.status = HTTP_401_UNAUTHORIZED

(* C18: when the provider answers 200 with a payload whose login_result is *)
(* neither PASS nor CHALLENGE, POST /accounts fails with 401 and with no   *)
(* other status.                                                           *)
NonPassIsUnauthorized ==
    (CredentialConnect
       /\ ProviderAnswer.status_code = HTTP_200_OK
       /\ LoginResult(ProviderAnswer.json) \notin {"PASS", "CHALLENGE", "-"})
      => last.status = HTTP_401_UNAUTHORIZED

(* a POST /accounts with cookies that passed validation *)
CookieConnect ==
    /\ last.op = "connect"
    /\ last.arg[1].model = "LinkedInCookieAuth"
    /\ last.arg[1].provider = "LINKEDIN"

(* C19: POST /accounts with cookies sends the provider one request, the    *)
(* probe GET /me; an answer other than 200 gives 401, an answer of 200     *)
(* gives 201 AccountCreated, and no answer gives a checkpoint.             *)
CookiePathNoCheckpoint ==
    CookieConnect
      => /\ Len(last.calls) = 1
         /\ last.calls = cookie_calls
         /\ last.status # HTTP_202_ACCEPTED
         /\ last.status \in {HTTP_201_CREATED, HTTP_401_UNAUTHORIZED}
         /\ last.status = HTTP_201_CREATED
              <=> ProviderAnswer.status_code = HTTP_200_OK
         /\ last.status = HTTP_201_CREATED
              => /\ AccountCreated
                 /\ last.body.account_id \in AccountIds

(* the probe was answered 403 and the request was refused with 401 after   *)
(* that one call                                                           *)
CookieProbeRefusedWitness ==
    /\ CookieConnect
    /\ ProviderAnswer.status_code = HTTP_403_FORBIDDEN
    /\ last.status = HTTP_401_UNAUTHORIZED
    /\ last.calls = cookie_calls

(* the code the provider sent out for the checkpoints; it rejects every    *)
(* other code                                                              *)
IssuedCode == "123456"

(* a POST /accounts/checkpoint that passed validation *)
Solve == last.op = "solve" /\ last.arg.provider = "LINKEDIN"

(* C20: the answer to POST /accounts/checkpoint follows the verdict of the *)
(* provider on the code: an accepted code gives AccountCreated or a        *)
(* further checkpoint, a rejected code gives a failure and never           *)
(* AccountCreated, and every answer names the account id of the request.   *)
ResolveFollowsVerdict ==
    Solve
      => /\ last.arg.code # IssuedCode
              => /\ ~AccountCreated
                 /\ ~CheckpointReturned
         /\ last.arg.code = IssuedCode
              => AccountCreated \/ CheckpointReturned
         /\ (AccountCreated \/ CheckpointReturned)
              => last.body.account_id = last.arg.account_id

----------------------------------------------------------------------------
(* Properties of the api key engine, continued *)

(* C25: the is_active the list and detail read APIs show for a key is true *)
(* exactly when validate would accept the secret of that key at the same   *)
(* instant, the instant now = expires_at included.                         *)
ReadFlagAgreesWithGate ==
    /\ \A i \in KeyRows :
         ApiKeyPublic(keys[i], now).is_active
           <=> get_api_key(keys, keys[i].key, now) = i
    /\ (last.op = "detail" /\ last.status = HTTP_200_OK)
         => (last.body.is_active
               <=> get_api_key(keys, keys[last.body.id].key, now) # NoRow)
    /\ (last.op = "list" /\ last.status = HTTP_200_OK)
         => \A n \in 1 .. Len(last.body.data) :
              last.body.data[n].is_active
                <=> get_api_key(keys, keys[last.body.data[n].id].key, now) # NoRow

(* what owner isolation says of a state: a lookup for a user finds rows of *)
(* that user only, a list shows rows of the caller only, detail answers    *)
(* 200 for the caller's own key and 404 for a key of somebody else, and a  *)
(* revoke aimed at a key of somebody else answers 404                      *)
IsolationState ==
    /\ \A u \in Users, id \in KeyIds :
         LET i == find_owned(keys, id, u) IN
         IF id \in KeyRows /\ keys[id].owner_id = u THEN i = id ELSE i = NoRow
    /\ (last.op = "list" /\ last.status = HTTP_200_OK)
         => /\ \A n \in 1 .. Len(last.body.data) :
                 keys[last.body.data[n].id].owner_id = last.who
            /\ last.body.count
                 <= Cardinality({ i \in KeyRows : keys[i].owner_id = last.who })
    /\ last.op = "detail"
         => IF last.arg \in KeyRows /\ keys[last.arg].owner_id = last.who
            THEN last.status = HTTP_200_OK /\ last.body.id = last.arg
            ELSE last.status = HTTP_404_NOT_FOUND /\ last.body = NoBody
    /\ last.op = "revoke"
         => (last.status = HTTP_204_NO_CONTENT
               <=> (last.arg \in KeyRows /\ keys[last.arg].owner_id = last.who))
    /\ last.op = "revoke"
         => last.status \in {HTTP_204_NO_CONTENT, HTTP_404_NOT_FOUND}

(* what owner isolation says of a step: a revoke answered 404 and every    *)
(* list and detail leave the table as it was, and the revoked, revoked_at  *)
(* and is_active of a row change only in a revoke of that row by its owner *)
IsolationStep ==
    /\ (last'.op = "revoke" /\ last'.status = HTTP_404_NOT_FOUND) => keys' = keys
    /\ last'.op \in {"list", "detail"} => keys' = keys
    /\ \A i \in KeyRows :
         (\/ keys'[i].revoked # keys[i].revoked
          \/ keys'[i].revoked_at # keys[i].revoked_at
          \/ keys'[i].is_active # keys[i].is_active)
           => /\ last'.op = "revoke"
              /\ last'.arg = i
              /\ last'.who = keys[i].owner_id

(* C27: revoke and detail act on a key only for its owner: asked by any    *)
(* other user they answer 404 and leave the record as it was, and list     *)
(* shows the caller's own keys only, so no user revokes or sees a key of   *)
(* another user.                                                           *)
OwnerIsolation == []IsolationState /\ [][IsolationStep]_vars

(* a user asked to revoke a key of the other user that is in use, was      *)
(* answered 404, and the key is not revoked                                *)
ForeignRevokeWitness ==
    /\ last.op = "revoke"
    /\ last.status = HTTP_404_NOT_FOUND
    /\ last.arg \in KeyRows
    /\ keys[last.arg].owner_id # last.who
    /\ keys[last.arg].last_used_at # NULL
    /\ ~keys[last.arg].revoked
    /\ keys[last.arg].is_active

----------------------------------------------------------------------------
(* Properties of routes/account.py, continued *)

(* a further checkpoint for the account of the checkpoint just answered *)
FurtherChallenge ==
    /\ Solve /\ CheckpointReturned
    /\ Solve' /\ CheckpointReturned'
    /\ last'.arg.account_id = last.arg.account_id

(* C21: every further challenge in answer to POST /accounts/checkpoint     *)
(* carries an attempt count one more than that of the checkpoint before    *)
(* it, so that the count reaches the ceiling and the chain of checkpoints  *)
(* of one account ends.                                                    *)
AttemptsCounted ==
    [][FurtherChallenge
         => /\ "attempt_count" \in DOMAIN last.body.checkpoint
            /\ "attempt_count" \in DOMAIN last'.body.checkpoint
            /\ last'.body.checkpoint.attempt_count
                 = last.body.checkpoint.attempt_count + 1]_vars

(* C24: POST /accounts/checkpoint answers AccountCreated or a further      *)
(* checkpoint only for an account id that an earlier POST /accounts issued *)
(* with a checkpoint; an account id that was never issued gets neither.    *)
ResolveNeedsPendingCheckpoint ==
    (Solve /\ last.arg.account_id \notin AccountIds)
      => /\ ~AccountCreated
         /\ ~CheckpointReturned

----------------------------------------------------------------------------
(* Properties of validate and revoke in several server processes *)

(* every key whose revoke has committed is stored revoked and inactive *)
RevokeKept ==
    \A i \in revokedOk :
      /\ keys[i].revoked
      /\ ~keys[i].is_active
      /\ keys[i].revoked_at # NULL

(* process p commits its validate in this step *)
ValidateCommits(p) ==
    /\ inflight[p].op = "validate"
    /\ inflight[p].pc = "commit"
    /\ inflight'[p].pc = "done"

(* a validate that starts once the revoke of its key has committed is      *)
(* refused; the commit of a validate writes last_used_at and nothing else; *)
(* and no step makes a revoked row unrevoked or an inactive row active     *)
RevokeRaceStep ==
    /\ \A p \in Processes, h \in RaceHeaders :
         (validate_read(p, h) /\ find_api_key(keys, h) \in revokedOk)
           => /\ inflight'[p].pc = "done"
              /\ inflight'[p].status = HTTP_401_UNAUTHORIZED
    /\ \A p \in Processes :
         ValidateCommits(p)
           => LET i == inflight[p].obj.id IN
              /\ keys' = [keys EXCEPT ![i].last_used_at = keys'[i].last_used_at]
              /\ keys'[i].last_used_at
                   \in {keys[i].last_used_at, inflight[p].obj.last_used_at}
              /\ inflight'[p].status = HTTP_200_OK
    /\ \A i \in 1 .. Len(keys) :
         /\ keys[i].revoked => keys'[i].revoked
         /\ ~keys[i].is_active => ~keys'[i].is_active

(* C26: under every interleaving of the read and the commit of validate    *)
(* and of revoke on one key, a key whose revoke has committed stays        *)
(* revoked and inactive: a validate that read the row before the revoke    *)
(* and commits after it writes last_used_at only, and a validate that      *)
(* starts after the revoke committed is refused.                           *)
RevokeSurvivesRace == []RevokeKept /\ [][RevokeRaceStep]_vars

(* a validate read the key unrevoked and committed after the revoke had    *)
(* committed: the row it got back is revoked, and so is the stored row,    *)
(* which carries the last_used_at of that validate                         *)
LateValidateWitness ==
    \E p \in Processes :
      /\ inflight[p].pc = "done"
      /\ inflight[p].op = "validate"
      /\ inflight[p].status = HTTP_200_OK
      /\ ~inflight[p].obj.revoked
      /\ inflight[p].body.revoked
      /\ inflight[p].body.id \in revokedOk
      /\ keys[inflight[p].body.id].revoked
      /\ ~keys[inflight[p].body.id].is_active
      /\ keys[inflight[p].body.id].last_used_at = inflight[p].obj.last_used_at
      /\ keys[inflight[p].body.id].revoked_at < inflight[p].obj.last_used_at

----------------------------------------------------------------------------
(* Properties of the requests in flight *)

(* process p has answered a resolve with AccountCreated or a checkpoint *)
ResolveOutcome(p) ==
    /\ inflight[p].pc = "done"
    /\ inflight[p].op = "solve"
    /\ inflight[p].status \in {HTTP_200_OK, HTTP_202_ACCEPTED}

(* C22: of two POST /accounts/checkpoint for one account id that were in   *)
(* flight at the same time, at most one is answered with AccountCreated or *)
(* a checkpoint.                                                           *)
ResolveSerialized ==
    \A p \in Processes, q \in Processes :
      (/\ p # q
       /\ q \in inflight[p].overlaps
       /\ ResolveOutcome(p)
       /\ ResolveOutcome(q)
       /\ inflight[p].arg.account_id = inflight[q].arg.account_id)
        => FALSE

(* C23: every POST /accounts and POST /accounts/checkpoint in flight is    *)
(* answered in the end, whether or not the provider answers.               *)
EveryCallReturns ==
    \A p \in Processes :
      (inflight[p].pc \in {"await", "sleep"}) ~> (inflight[p].pc = "done")

====
